---- MODULE Spec2Model ----
(***************************************************************************)
(* TUIdoist: the shared application state (src/src/state.rs), the initial  *)
(* load (src/src/main.rs) and the interaction loop with its background     *)
(* refresh tasks (src/src/ui.rs).                                          *)
(***************************************************************************)
EXTENDS Integers, Sequences, FiniteSets, TLC

VARIABLES
    app_state,        \* the AppState behind Arc<Mutex<..>>
    now,              \* Instant::now(), whole seconds of the monotonic clock
    today,            \* Local::today(), a day number
    tz,               \* offset of the Local time zone from UTC, in hours
    refreshes,        \* the spawned refresh tasks that have not finished
    spawned,          \* number of refresh tasks spawned so far
    ui_pc,            \* position of the foreground loop
    selected_id_opt,  \* the local of the space handler (ui.rs:122)
    ready,            \* the Vec<&PendingChange> get_ready_to_sync returned,
                      \* alive until the state is next borrowed mutably
    lock,             \* the refresh task that holds the Mutex, or None
    fetching,         \* the refresh tasks still awaiting the remote service
    landed,           \* the refresh tasks that have written, in that order
    key,              \* the key code read by event::read (ui.rs:100), or None
    terminal,         \* raw mode and alternate screen of the terminal
    frame             \* the state_copy of the last frame drawn (ui.rs:90-95)

vars == <<app_state, now, today, tz, refreshes, spawned, ui_pc,
          selected_id_opt, ready, lock, fetching, landed, key, terminal, frame>>

(***************************************************************************)
(* Bounds of the model.                                                    *)
(***************************************************************************)
MaxTasks == 2        \* longest task list a fetch or a caller supplies
MaxPending == 2      \* longest pending_changes queue
MaxNow == 31         \* the clock stops advancing here
MaxRefresh == 1      \* refresh tasks spawned in one run
MaxView == 2         \* longest task list of the view specification
MaxOverlap == 2      \* refresh tasks spawned in one run of the loop

(***************************************************************************)
(* Program constants.                                                      *)
(***************************************************************************)
DebounceSecs == 30   \* Duration::from_secs(30), state.rs:122
YmdLen == 10         \* due.date.len() == 10, state.rs:178

None == <<>>         \* Option::None
Some(x) == <<x>>     \* Option::Some(x)
unwrap(o) == o[1]

(***************************************************************************)
(* Due dates.  A due.date string is described by what it spells:           *)
(*   ymd       "YYYY-MM-DD" for day `day`                                  *)
(*   rfc3339   "YYYY-MM-DDTHH:00:00+OO:00": day, hour and UTC offset       *)
(*   floating  "YYYY-MM-DDTHH:00:00", a timestamp without offset           *)
(*   text10    ten characters that are no date ("not-a-date")              *)
(*   text      other text without a 'T' ("tomorrow")                       *)
(*   textT     other text with a 'T' ("Tuesday")                           *)
(***************************************************************************)
DueStr(fmt, day, hour, off) == [fmt |-> fmt, day |-> day, hour |-> hour, off |-> off]

StrLen(d) ==
    CASE d.fmt = "ymd" -> 10
      [] d.fmt = "rfc3339" -> 25
      [] d.fmt = "floating" -> 19
      [] d.fmt = "text10" -> 10
      [] d.fmt = "text" -> 8
      [] d.fmt = "textT" -> 7

ContainsT(d) == d.fmt \in {"rfc3339", "floating", "textT"}

Err == [ok |-> FALSE, day |-> 0, utc |-> 0]

\* NaiveDate::parse_from_str(s, "%Y-%m-%d"): Ok(day) for a calendar date only
NaiveDate_parse_from_str(d) ==
    IF d.fmt = "ymd" THEN [ok |-> TRUE, day |-> d.day, utc |-> 0] ELSE Err

\* DateTime::parse_from_rfc3339(s): Ok(instant in hours since day 0, UTC)
\* only when the timestamp carries an offset
DateTime_parse_from_rfc3339(d) ==
    IF d.fmt = "rfc3339"
    THEN [ok |-> TRUE, day |-> 0, utc |-> d.day * 24 + d.hour - d.off]
    ELSE Err

\* as with_timezone_local_date, but the date is read in UTC
with_timezone_utc_date(dt) == dt.utc \div 24

\* dt.with_timezone(&Local).date().naive_local()
with_timezone_local_date(dt) == (dt.utc + tz) \div 24

(***************************************************************************)
(* Tasks (api.rs:19-28); content, description and priority play no part    *)
(* in the state logic.                                                     *)
(***************************************************************************)
Task(id, done, due) == [id |-> id, is_completed |-> done, due |-> due]

Range(s) == {s[i] : i \in 1..Len(s)}

\* closure of tasks_due_today (state.rs:175-190)
is_due_today(task) ==
    IF task.due # None
    THEN IF StrLen(unwrap(task.due)) = YmdLen
         THEN LET r == NaiveDate_parse_from_str(unwrap(task.due))
              IN  IF r.ok THEN r.day = today ELSE FALSE
         ELSE IF ContainsT(unwrap(task.due))
              THEN LET r == DateTime_parse_from_rfc3339(unwrap(task.due))
                   IN  IF r.ok THEN with_timezone_local_date(r) = today ELSE FALSE
              ELSE FALSE
    ELSE FALSE

\* closure of tasks_upcoming (state.rs:200-217)
is_upcoming(task) ==
    IF task.due # None
    THEN IF StrLen(unwrap(task.due)) = YmdLen
         THEN LET r == NaiveDate_parse_from_str(unwrap(task.due))
              IN  IF r.ok THEN r.day > today ELSE FALSE
         ELSE IF ContainsT(unwrap(task.due))
              THEN LET r == DateTime_parse_from_rfc3339(unwrap(task.due))
                   IN  IF r.ok THEN with_timezone_local_date(r) > today ELSE FALSE
              ELSE FALSE
    ELSE TRUE

tasks_due_today(s) == SelectSeq(s.tasks, is_due_today)

tasks_upcoming(s) == SelectSeq(s.tasks, is_upcoming)

\* bool keys order as false < true
KeyLe(a, b) == (~a) \/ b

\* as InsertPos, but x goes before the elements of equal key
RECURSIVE InsertPos_before_equal(_, _)
InsertPos_before_equal(sorted, x) ==
    IF sorted = <<>> THEN 0
    ELSE IF ~KeyLe(x.is_completed, sorted[Len(sorted)].is_completed)
         THEN Len(sorted)
         ELSE InsertPos_before_equal(SubSeq(sorted, 1, Len(sorted) - 1), x)

\* position after the last element whose key is <= the key of x
RECURSIVE InsertPos(_, _)
InsertPos(sorted, x) ==
    IF sorted = <<>> THEN 0
    ELSE IF KeyLe(sorted[Len(sorted)].is_completed, x.is_completed)
         THEN Len(sorted)
         ELSE InsertPos(SubSeq(sorted, 1, Len(sorted) - 1), x)

\* slice::sort_by_key(|task| task.is_completed): a stable sort
RECURSIVE sort_by_key(_)
sort_by_key(s) ==
    IF s = <<>> THEN <<>>
    ELSE LET front == sort_by_key(SubSeq(s, 1, Len(s) - 1))
             x == s[Len(s)]
             p == InsertPos(front, x)
         IN  SubSeq(front, 1, p) \o <<x>> \o SubSeq(front, p + 1, Len(front))

today_tasks(s) == sort_by_key(tasks_due_today(s) \o s.completed_tasks)

(***************************************************************************)
(* AppState (state.rs:26-56) and its methods, as functions of the state.   *)
(***************************************************************************)
Status(tag) == [tag |-> tag, msg |-> ""]
StatusError(msg) == [tag |-> "Error", msg |-> msg]

new ==
    [tasks |-> <<>>,
     completed_tasks |-> <<>>,
     selected_index |-> 0,
     pending_changes |-> <<>>,
     search_query |-> "",
     is_searching |-> FALSE,
     sync_status |-> Status("Offline")]

saturating_sub(a, b) == IF a >= b THEN a - b ELSE 0

\* as load_tasks, but a task already in the list keeps its local flag
load_tasks_merging(s, ts) ==
    [s EXCEPT !.tasks =
                  [i \in 1..Len(ts) |->
                      IF \E k \in 1..Len(s.tasks) : s.tasks[k].id = ts[i].id
                      THEN [ts[i] EXCEPT !.is_completed =
                               s.tasks[CHOOSE k \in 1..Len(s.tasks) :
                                           s.tasks[k].id = ts[i].id].is_completed]
                      ELSE ts[i]],
              !.selected_index = 0]

load_tasks(s, ts) == [s EXCEPT !.tasks = ts, !.selected_index = 0]

\* as load_completed_tasks, but the queue of local changes is dropped too
load_completed_tasks_clearing(s, ts) ==
    [s EXCEPT !.completed_tasks =
                  [i \in 1..Len(ts) |-> [ts[i] EXCEPT !.is_completed = TRUE]],
              !.pending_changes = <<>>]

\* as load_completed_tasks, but the flags are taken as the service sent them
load_completed_tasks_as_sent(s, ts) == [s EXCEPT !.completed_tasks = ts]

load_completed_tasks(s, ts) ==
    [s EXCEPT !.completed_tasks =
        [i \in 1..Len(ts) |-> [ts[i] EXCEPT !.is_completed = TRUE]]]

move_up(s) ==
    IF s.selected_index > 0
    THEN [s EXCEPT !.selected_index = @ - 1]
    ELSE s

move_down(s) ==
    IF s.selected_index < saturating_sub(Len(s.tasks), 1)
    THEN [s EXCEPT !.selected_index = @ + 1]
    ELSE s

go_to_top(s) == [s EXCEPT !.selected_index = 0]

go_to_bottom(s) == [s EXCEPT !.selected_index = saturating_sub(Len(s.tasks), 1)]

PendingChange(id, ct, t) == [task_id |-> id, change_type |-> ct, timestamp |-> t]

\* as change_type_of, but from the flag before the flip
change_type_before(task) == IF task.is_completed THEN "Uncomplete" ELSE "Complete"

\* the change type pushed for a task that has just been flipped (state.rs:106-110)
change_type_of(task) == IF task.is_completed THEN "Complete" ELSE "Uncomplete"

\* `t` is Instant::now(); selected_index counts from 0, sequences from 1
toggle_selected_task(s, t) ==
    LET i == s.selected_index + 1
    IN  IF i <= Len(s.tasks)
        THEN LET task == [s.tasks[i] EXCEPT !.is_completed = ~@]
             IN  [s EXCEPT !.tasks[i] = task,
                           !.pending_changes =
                               Append(@, PendingChange(task.id, change_type_of(task), t))]
        ELSE s

\* Instant::duration_since saturates at zero
duration_since(later, earlier) == saturating_sub(later, earlier)

\* as is_ready, but the threshold itself is excluded
is_ready_strict(change, t) == duration_since(t, change.timestamp) > DebounceSecs

is_ready(change, t) == duration_since(t, change.timestamp) >= DebounceSecs

get_ready_to_sync(s, t) ==
    SelectSeq(s.pending_changes, LAMBDA change : is_ready(change, t))

\* as mark_synced, but only the first entry of each id is removed
mark_synced_first(s, task_ids) ==
    LET p == s.pending_changes
        first(i) == \A k \in 1..(i - 1) : p[k].task_id # p[i].task_id
        keep == {i \in 1..Len(p) : ~(p[i].task_id \in task_ids /\ first(i))}
        RECURSIVE pick(_)
        pick(n) == IF n = 0 THEN <<>>
                   ELSE IF n \in keep THEN Append(pick(n - 1), p[n]) ELSE pick(n - 1)
    IN  [s EXCEPT !.pending_changes = pick(Len(p))]

mark_synced(s, task_ids) ==
    [s EXCEPT !.pending_changes =
        SelectSeq(@, LAMBDA change : ~(change.task_id \in task_ids))]

start_search(s) == [s EXCEPT !.is_searching = TRUE, !.search_query = ""]

end_search(s) == [s EXCEPT !.is_searching = FALSE, !.search_query = ""]

update_search(s, query) == [s EXCEPT !.search_query = query]

\* index of the first task of `ts` with this id, 0 when there is none
RECURSIVE position(_, _)
position(ts, id) ==
    IF ts = <<>> THEN 0
    ELSE LET p == position(SubSeq(ts, 1, Len(ts) - 1), id)
         IN  IF p # 0 THEN p
             ELSE IF ts[Len(ts)].id = id THEN Len(ts) ELSE 0

\* as toggle_task_by_id, but the id is flipped in both collections
toggle_task_by_id_everywhere(s, id) ==
    LET i == position(s.tasks, id)
        j == position(s.completed_tasks, id)
        s1 == IF i # 0 THEN [s EXCEPT !.tasks[i].is_completed = ~@] ELSE s
    IN  IF j # 0 THEN [s1 EXCEPT !.completed_tasks[j].is_completed = ~@] ELSE s1

\* toggle_task_by_id is called at ui.rs:135; its body is not in state.rs
toggle_task_by_id(s, id) ==
    LET i == position(s.tasks, id)
        j == position(s.completed_tasks, id)
    IN  IF i # 0 THEN [s EXCEPT !.tasks[i].is_completed = ~@]
        ELSE IF j # 0 THEN [s EXCEPT !.completed_tasks[j].is_completed = ~@]
        ELSE s

\* as refresh_fold, but a failed completed-task fetch is reported too
refresh_fold_completed_fatal(s, active_result, completed_result) ==
    LET s1 == CASE active_result.kind = "Ok" ->
                     [load_tasks(s, active_result.tasks)
                         EXCEPT !.sync_status = Status("Online")]
                [] active_result.kind = "Err" ->
                     [s EXCEPT !.sync_status = StatusError(active_result.msg)]
                [] active_result.kind = "Elapsed" ->
                     [s EXCEPT !.sync_status = StatusError("Timeout")]
    IN  CASE completed_result.kind = "Ok" ->
                 load_completed_tasks(s1, completed_result.tasks)
          [] completed_result.kind = "Err" ->
                 [s1 EXCEPT !.sync_status = StatusError(completed_result.msg)]
          [] completed_result.kind = "Elapsed" ->
                 [s1 EXCEPT !.sync_status = StatusError("Timeout")]

\* as refresh_fold, but a failed completed-task fetch empties the list
refresh_fold_clearing(s, active_result, completed_result) ==
    LET s1 == CASE active_result.kind = "Ok" ->
                     [load_tasks(s, active_result.tasks)
                         EXCEPT !.sync_status = Status("Online")]
                [] active_result.kind = "Err" ->
                     [s EXCEPT !.sync_status = StatusError(active_result.msg)]
                [] active_result.kind = "Elapsed" ->
                     [s EXCEPT !.sync_status = StatusError("Timeout")]
    IN  IF completed_result.kind = "Ok"
        THEN load_completed_tasks(s1, completed_result.tasks)
        ELSE [s1 EXCEPT !.completed_tasks = <<>>]

\* the outcome fold of a refresh (ui.rs:162-189), under one lock acquisition
refresh_fold(s, active_result, completed_result) ==
    LET s1 == CASE active_result.kind = "Ok" ->
                     [load_tasks(s, active_result.tasks)
                         EXCEPT !.sync_status = Status("Online")]
                [] active_result.kind = "Err" ->
                     [s EXCEPT !.sync_status = StatusError(active_result.msg)]
                [] active_result.kind = "Elapsed" ->
                     [s EXCEPT !.sync_status = StatusError("Timeout")]
    IN  IF completed_result.kind = "Ok"
        THEN load_completed_tasks(s1, completed_result.tasks)
        ELSE s1

\* as initial_fold, but a failed active-task fetch is only logged
initial_fold_error_unreported(s, active_result, completed_result) ==
    LET s1 == IF active_result.kind = "Ok"
              THEN [load_tasks(s, active_result.tasks)
                       EXCEPT !.sync_status = Status("Online")]
              ELSE s
    IN  IF completed_result.kind = "Ok"
        THEN load_completed_tasks(s1, completed_result.tasks)
        ELSE s1

\* the first match of the fold, on active_result (ui.rs:162-178)
fold_active_result(s, active_result) ==
    CASE active_result.kind = "Ok" ->
             [load_tasks(s, active_result.tasks)
                 EXCEPT !.sync_status = Status("Online")]
      [] active_result.kind = "Err" ->
             [s EXCEPT !.sync_status = StatusError(active_result.msg)]
      [] active_result.kind = "Elapsed" ->
             [s EXCEPT !.sync_status = StatusError("Timeout")]

\* the second match of the fold, on completed_result (ui.rs:179-189)
fold_completed_result(s, completed_result) ==
    IF completed_result.kind = "Ok"
    THEN load_completed_tasks(s, completed_result.tasks)
    ELSE s

\* the initial fetch (main.rs:28-48); no timeout wraps these calls
initial_fold(s, active_result, completed_result) ==
    LET s1 == IF active_result.kind = "Ok"
              THEN [load_tasks(s, active_result.tasks)
                       EXCEPT !.sync_status = Status("Online")]
              ELSE [s EXCEPT !.sync_status = StatusError(active_result.msg)]
    IN  IF completed_result.kind = "Ok"
        THEN load_completed_tasks(s1, completed_result.tasks)
        ELSE s1

(***************************************************************************)
(* Inputs: what the remote service returns and what callers pass.          *)
(***************************************************************************)
\* the terminal: enable_raw_mode / EnterAlternateScreen and their inverses
Cooked == [raw_mode |-> FALSE, alternate_screen |-> FALSE]

Ymd(day) == DueStr("ymd", day, 0, 0)
Rfc3339(day, hour, off) == DueStr("rfc3339", day, hour, off)

\* all sequences of at most n distinct elements of S
SeqsNoDup(S, n) ==
    UNION {{f \in [1..k -> S] : \A i, j \in 1..k : f[i] = f[j] => i = j} : k \in 0..n}

\* tasks of the active-tasks endpoint: due today (day 2) and tomorrow
ActivePool ==
    {Task("a", FALSE, Some(Ymd(2))),
     Task("b", FALSE, Some(Ymd(3)))}

\* the completed-tasks endpoint: a task completed today that is also still
\* active, with the flag left unset upstream
CompletedPool ==
    {Task("a", FALSE, Some(Ymd(2)))}

\* what the completed-tasks endpoint may send: tasks completed today, some
\* still active, the flag set or not, in any order
UpstreamPool ==
    {Task(id, done, Some(Ymd(2))) : id \in {"a", "d"}, done \in BOOLEAN}

UpstreamCompleted ==
    {ts \in SeqsNoDup(UpstreamPool, MaxTasks) :
        \A i, j \in 1..Len(ts) : ts[i].id = ts[j].id => i = j}

ActiveLists == SeqsNoDup(ActivePool, MaxTasks)
CompletedLists == SeqsNoDup(CompletedPool, MaxTasks)

TaskIds == {t.id : t \in ActivePool \cup CompletedPool}

Ok(ts) == [kind |-> "Ok", tasks |-> ts, msg |-> ""]
Failed(msg) == [kind |-> "Err", tasks |-> <<>>, msg |-> msg]
Elapsed == [kind |-> "Elapsed", tasks |-> <<>>, msg |-> ""]

\* outcomes of client.get_todays_tasks() and get_todays_completed_tasks()
ActiveOutcomes == {Ok(ts) : ts \in ActiveLists} \cup {Failed("http")}
CompletedOutcomes == {Ok(ts) : ts \in CompletedLists} \cup {Failed("http")}

\* the instants at which the clock is sampled: around multiples of the threshold
Instants == {t \in 0..MaxNow : t % DebounceSecs \in {0, 1}}

Queries == {"", "q"}

(***************************************************************************)
(* Initial state: AppState::new() (main.rs:24), nothing fetched yet.       *)
(***************************************************************************)
Init ==
    /\ app_state = new
    /\ now = 0
    /\ today = 2
    /\ tz = 0
    /\ refreshes = {}
    /\ spawned = 0
    /\ ui_pc = "start"
    /\ selected_id_opt = None
    /\ ready = <<>>
    /\ lock = None
    /\ fetching = {}
    /\ landed = <<>>
    /\ key = None
    /\ terminal = Cooked
    /\ frame = None

env == <<today, tz>>
loop == <<ui_pc, selected_id_opt>>

\* what only the step-by-step loop of SpecLoop moves
tty == <<key, terminal, frame>>
tasking == <<lock, fetching, landed>>

\* the foreground is at the head of its loop, waiting for a key
Idle == ui_pc = "idle"

\* a call of one AppState method under the lock, by the foreground when it is
\* not between the two lock acquisitions of the space handler
Call(s) ==
    /\ ui_pc # "space"
    /\ UNCHANGED <<now, env, refreshes, spawned, loop, tasking, tty>>
    /\ ready' = <<>>
    /\ app_state' = s

(***************************************************************************)
(* main.rs: the initial fetch, both calls made while the lock is held.     *)
(***************************************************************************)
InitialLoad ==
    /\ ui_pc = "start"
    /\ \E ar \in ActiveOutcomes, cr \in CompletedOutcomes :
         app_state' = initial_fold(app_state, ar, cr)
    /\ ui_pc' = "idle"
    /\ ready' = <<>>
    /\ UNCHANGED <<now, env, refreshes, spawned, selected_id_opt, tasking, tty>>

(***************************************************************************)
(* Calls of the AppState methods.                                          *)
(***************************************************************************)
LoadTasksCall(ts) == Call(load_tasks(app_state, ts))

LoadTasks == \E ts \in ActiveLists : LoadTasksCall(ts)

LoadCompletedTasksCall(ts) == Call(load_completed_tasks(app_state, ts))

LoadCompletedTasks == \E ts \in CompletedLists : LoadCompletedTasksCall(ts)

\* load_completed_tasks with whatever the service may send
LoadCompletedUpstream == \E ts \in UpstreamCompleted : LoadCompletedTasksCall(ts)

MoveUp == Call(move_up(app_state))

MoveDown == Call(move_down(app_state))

GoToTop == Call(go_to_top(app_state))

GoToBottom == Call(go_to_bottom(app_state))

ToggleSelectedTask ==
    /\ Len(app_state.pending_changes) < MaxPending
    /\ Call(toggle_selected_task(app_state, now))

GetReadyToSync ==
    /\ ui_pc # "space"
    /\ ready' = get_ready_to_sync(app_state, now)
    /\ UNCHANGED <<app_state, now, env, refreshes, spawned, loop, tasking, tty>>

MarkSyncedCall(ids) == Call(mark_synced(app_state, ids))

MarkSynced == \E ids \in SUBSET TaskIds : MarkSyncedCall(ids)

StartSearch == Call(start_search(app_state))

EndSearch == Call(end_search(app_state))

UpdateSearch ==
    \E q \in Queries : Call(update_search(app_state, q))

\* the monotonic clock moves on
Tick ==
    /\ \E t \in Instants : t > now /\ now' = t
    /\ UNCHANGED <<app_state, env, refreshes, spawned, loop, ready, tasking, tty>>

(***************************************************************************)
(* ui.rs: the navigation keys (ui.rs:104-119).                             *)
(***************************************************************************)
KeyDown == Idle /\ MoveDown

KeyUp == Idle /\ MoveUp

KeyBottom == Idle /\ GoToBottom

KeyTop == Idle /\ GoToTop

(***************************************************************************)
(* ui.rs: the space key takes the lock twice (ui.rs:120-137).              *)
(***************************************************************************)
\* as selected_id, but the index is taken into tasks instead of the view
selected_id_in_tasks(s) ==
    IF s.selected_index < Len(s.tasks)
    THEN Some(s.tasks[s.selected_index + 1].id)
    ELSE None

\* unified_ids.get(state.selected_index).cloned()
selected_id(s) ==
    LET unified == today_tasks(s)
    IN  IF s.selected_index < Len(unified)
        THEN Some(unified[s.selected_index + 1].id)
        ELSE None

KeySpaceResolve ==
    /\ Idle
    /\ selected_id_opt' = selected_id(app_state)
    /\ ui_pc' = IF selected_id(app_state) # None THEN "space" ELSE "idle"
    /\ UNCHANGED <<app_state, now, env, refreshes, spawned, ready, tasking, tty>>

KeySpaceToggle ==
    /\ ui_pc = "space"
    /\ app_state' = toggle_task_by_id(app_state, unwrap(selected_id_opt))
    /\ ui_pc' = "idle"
    /\ selected_id_opt' = None
    /\ ready' = <<>>
    /\ UNCHANGED <<now, env, refreshes, spawned, tasking, tty>>

(***************************************************************************)
(* ui.rs: what the renderer highlights (ui.rs:204-304).                    *)
(***************************************************************************)
\* render_tasks_section: the row of a panel that is selected (ui.rs:282-288)
local_selected(tasks, offset, global_selected_index) ==
    IF global_selected_index >= offset
         /\ global_selected_index < offset + Len(tasks)
    THEN Some(global_selected_index - offset)
    ELSE None

\* render_ui: the Today panel at offset 0 and the Upcoming panel at the
\* offset today_tasks().len() (ui.rs:217-237); the tasks drawn highlighted
highlighted(s) ==
    LET today_rows == today_tasks(s)
        upcoming_rows == tasks_upcoming(s)
        in_today == local_selected(today_rows, 0, s.selected_index)
        in_upcoming ==
            local_selected(upcoming_rows, Len(today_rows), s.selected_index)
    IN  {[panel |-> "Today", task |-> today_rows[unwrap(in_today) + 1]] :
             x \in {in_today} \ {None}}
        \cup
        {[panel |-> "Upcoming", task |-> upcoming_rows[unwrap(in_upcoming) + 1]] :
             x \in {in_upcoming} \ {None}}

(***************************************************************************)
(* ui.rs: the refresh key and the task it spawns (ui.rs:138-191).  The     *)
(* two fetches touch no shared state; their outcomes enter the state when  *)
(* the task takes the lock and folds them.                                 *)
(***************************************************************************)
RefreshOutcomes(active) ==
    IF active THEN ActiveOutcomes \cup {Elapsed} ELSE CompletedOutcomes \cup {Elapsed}

KeyRefresh ==
    /\ Idle
    /\ spawned < MaxRefresh
    /\ app_state' = [app_state EXCEPT !.sync_status = Status("Syncing")]
    /\ spawned' = spawned + 1
    /\ refreshes' = refreshes \cup {spawned + 1}
    /\ ready' = <<>>
    /\ UNCHANGED <<now, env, loop, tasking, tty>>

RefreshLand ==
    \E r \in refreshes :
        /\ \E ar \in RefreshOutcomes(TRUE), cr \in RefreshOutcomes(FALSE) :
             app_state' = refresh_fold(app_state, ar, cr)
        /\ refreshes' = refreshes \ {r}
        /\ ready' = <<>>
        /\ UNCHANGED <<now, env, spawned, loop, tasking, tty>>

(***************************************************************************)
(* Spec: the program as written, main.rs followed by the loop of ui.rs     *)
(* with the refresh tasks it spawns.                                       *)
(***************************************************************************)
Next ==
    \/ InitialLoad
    \/ KeyUp
    \/ KeyDown
    \/ KeyTop
    \/ KeyBottom
    \/ KeySpaceResolve
    \/ KeySpaceToggle
    \/ KeyRefresh
    \/ RefreshLand

Spec == Init /\ [][Next]_vars

(***************************************************************************)
(* SpecApi: AppState under any caller of its methods, with the refresh     *)
(* tasks writing their outcomes in between.                                *)
(***************************************************************************)
NextApi ==
    \/ InitialLoad
    \/ LoadTasks
    \/ LoadCompletedTasks
    \/ MoveUp
    \/ MoveDown
    \/ GoToTop
    \/ GoToBottom
    \/ ToggleSelectedTask
    \/ MarkSynced
    \/ StartSearch
    \/ EndSearch
    \/ UpdateSearch
    \/ KeyRefresh
    \/ RefreshLand

SpecApi == Init /\ [][NextApi]_vars

(***************************************************************************)
(* SpecSync: the sync bookkeeping against the clock.                       *)
(***************************************************************************)
NextSync ==
    \/ LoadTasks
    \/ MoveUp
    \/ MoveDown
    \/ ToggleSelectedTask
    \/ Tick
    \/ GetReadyToSync
    \/ MarkSynced

SpecSync == Init /\ [][NextSync]_vars

(***************************************************************************)
(* SpecLoad: the two load operations against local flips and navigation.   *)
(***************************************************************************)
NextLoad ==
    \/ LoadTasks
    \/ LoadCompletedUpstream
    \/ MoveDown
    \/ ToggleSelectedTask

SpecLoad == Init /\ [][NextLoad]_vars

(***************************************************************************)
(* SpecView: the view functions on task lists with every kind of due date, *)
(* in several time zones.                                                  *)
(***************************************************************************)
ViewDues ==
    {None,
     Some(Ymd(1)), Some(Ymd(2)), Some(Ymd(3)),
     Some(Rfc3339(2, 23, 0)), Some(Rfc3339(2, 0, 0)),
     Some(DueStr("floating", 2, 12, 0)),
     Some(DueStr("text10", 0, 0, 0)),
     Some(DueStr("text", 0, 0, 0)),
     Some(DueStr("textT", 0, 0, 0))}

ViewIds == <<"a", "b", "c", "e">>

\* task lists of at most MaxView tasks with any due date and any flag
ViewLists ==
    UNION {{[i \in 1..k |-> Task(ViewIds[i], f[i][1], f[i][2])] :
                f \in [1..k -> BOOLEAN \X ViewDues]} : k \in 0..MaxView}

\* completed lists as load_completed_tasks left them, some flipped since
ViewCompleted ==
    {<<>>,
     <<Task("d", TRUE, Some(Ymd(2)))>>,
     <<Task("a", FALSE, Some(Ymd(2)))>>,
     <<Task("d", TRUE, Some(Ymd(2))), Task("a", FALSE, Some(Ymd(2)))>>,
     <<Task("a", FALSE, Some(Ymd(2))), Task("d", TRUE, Some(Ymd(2)))>>,
     <<Task("a", TRUE, Some(Ymd(2))), Task("d", TRUE, Some(Ymd(2)))>>}

TzOffsets == {0 - 1, 0, 1}

InitView ==
    /\ \E ts \in ViewLists, cs \in ViewCompleted :
         app_state = [new EXCEPT !.tasks = ts, !.completed_tasks = cs,
                                 !.sync_status = Status("Online")]
    /\ now = 0
    /\ today = 2
    /\ tz \in TzOffsets
    /\ refreshes = {}
    /\ spawned = 0
    /\ ui_pc = "idle"
    /\ selected_id_opt = None
    /\ ready = <<>>
    /\ lock = None
    /\ fetching = {}
    /\ landed = <<>>
    /\ key = None
    /\ terminal = Cooked
    /\ frame = None

NextView ==
    \/ KeyUp
    \/ KeyDown
    \/ KeyTop
    \/ KeyBottom

SpecView == InitView /\ [][NextView]_vars

(***************************************************************************)
(* SpecLoop: main.rs and UI::run step by step, one action per lock         *)
(* acquisition or await, with the terminal, the Mutex and the stages of    *)
(* the refresh tasks.  A crossterm call inside cleanup is taken to succeed.*)
(***************************************************************************)
Raw == [raw_mode |-> TRUE, alternate_screen |-> FALSE]
RawAlt == [raw_mode |-> TRUE, alternate_screen |-> TRUE]

\* UI::cleanup (ui.rs:332-341)
cleanup(t) == [t EXCEPT !.raw_mode = FALSE, !.alternate_screen = FALSE]

\* what render_ui shows of a state_copy: the rows of the Today panel and
\* the label of the status bar
FrameOf(state_copy) ==
    [today |-> Len(today_tasks(state_copy)),
     sync_status |-> state_copy.sync_status.tag]

\* what the service answers while the loop runs: task a is due today
LoopTask == Task("a", FALSE, Some(Ymd(2)))
LoopActiveOutcomes == {Ok(<<LoopTask>>), Ok(<<>>), Failed("http")}
LoopCompletedOutcomes == {Ok(<<LoopTask>>), Failed("http")}

\* the key codes the user may press; Down and Up share the arms of j and k
KeyCodes == {"q", "j", "k", "G", "g", " ", "r", "/", "Esc"}

Running == ui_pc # "exit"

\* the task whose guard is alive between the two matches of the fold
Half(r) == <<r, "completed_result">>

\* as LockFree, but the guard is given up between the two matches
LockFree_between_matches == lock = None \/ Len(lock) = 2

LockFree == lock = None

\* main.rs:28-48, then on to UI::new
MainInitialFetchWith(ar, cr) ==
    /\ ui_pc = "start"
    /\ app_state' = initial_fold(app_state, ar, cr)
    /\ ui_pc' = "new"
    /\ UNCHANGED <<now, env, refreshes, spawned, selected_id_opt, ready,
                   tasking, tty>>

MainInitialFetch ==
    \E ar \in LoopActiveOutcomes, cr \in LoopCompletedOutcomes :
        MainInitialFetchWith(ar, cr)

\* UI::new (ui.rs:58-73) returns the UI
UiNewOk ==
    /\ ui_pc = "new"
    /\ terminal' = RawAlt
    /\ ui_pc' = "loop"
    /\ UNCHANGED <<app_state, now, env, refreshes, spawned, selected_id_opt,
                   ready, tasking, key, frame>>

\* UI::new returns Err at one of its three `?`: enable_raw_mode (ui.rs:60),
\* execute! (ui.rs:62, either command) or Terminal::new (ui.rs:64); no UI
\* value exists yet, main returns the error (main.rs:51)
UiNewErr ==
    /\ ui_pc = "new"
    /\ terminal' \in {terminal, Raw, RawAlt}
    /\ ui_pc' = "exit"
    /\ UNCHANGED <<app_state, now, env, refreshes, spawned, selected_id_opt,
                   ready, tasking, key, frame>>

\* ui.rs:82-86: the blocking lock before the frame
LoopSelect ==
    /\ ui_pc = "loop"
    /\ LockFree
    /\ ui_pc' = "draw"
    /\ UNCHANGED <<app_state, now, env, refreshes, spawned, selected_id_opt,
                   ready, tasking, tty>>

\* ui.rs:89-96: try_lock, and AppState::new() when the lock is held
Draw ==
    /\ ui_pc = "draw"
    /\ frame' = Some(FrameOf(IF LockFree THEN app_state ELSE new))
    /\ ui_pc' = "poll"
    /\ UNCHANGED <<app_state, now, env, refreshes, spawned, selected_id_opt,
                   ready, tasking, key, terminal>>

\* terminal.draw returns Err (the `?` of ui.rs:96) or the render code
\* panics: run is left and the UI value is dropped
DrawErr ==
    /\ ui_pc = "draw"
    /\ ui_pc' = "drop"
    /\ UNCHANGED <<app_state, now, env, refreshes, spawned, selected_id_opt,
                   ready, tasking, tty>>

\* ui.rs:99: no event within 200 ms, or an event that is not a key press
PollTimeout ==
    /\ ui_pc = "poll"
    /\ ui_pc' = "loop"
    /\ UNCHANGED <<app_state, now, env, refreshes, spawned, selected_id_opt,
                   ready, tasking, tty>>

\* ui.rs:99-102: a key press is read
PollKey ==
    /\ ui_pc = "poll"
    /\ \E k \in KeyCodes :
          /\ k = "r" => spawned < MaxOverlap
          /\ key' = Some(k)
    /\ ui_pc' = "key"
    /\ UNCHANGED <<app_state, now, env, refreshes, spawned, selected_id_opt,
                   ready, tasking, terminal, frame>>

\* event::poll or event::read returns Err (the `?` of ui.rs:99-100)
PollErr ==
    /\ ui_pc = "poll"
    /\ ui_pc' = "drop"
    /\ UNCHANGED <<app_state, now, env, refreshes, spawned, selected_id_opt,
                   ready, tasking, tty>>

Pressed(k) == ui_pc = "key" /\ key = Some(k)

\* an arm that locks the state and calls one method (ui.rs:104-119)
Arm(k, s) ==
    /\ Pressed(k)
    /\ LockFree
    /\ app_state' = s
    /\ ui_pc' = "loop"
    /\ key' = None
    /\ ready' = <<>>
    /\ UNCHANGED <<now, env, refreshes, spawned, selected_id_opt, tasking,
                   terminal, frame>>

HandleDown == Arm("j", move_down(app_state))
HandleUp == Arm("k", move_up(app_state))
HandleBottom == Arm("G", go_to_bottom(app_state))
HandleTop == Arm("g", go_to_top(app_state))

\* ui.rs:103
HandleQuit ==
    /\ Pressed("q")
    /\ ui_pc' = "cleanup"
    /\ key' = None
    /\ UNCHANGED <<app_state, now, env, refreshes, spawned, selected_id_opt,
                   ready, tasking, terminal, frame>>

\* ui.rs:192, the arm `_ => {}`
HandleOther ==
    /\ \E k \in KeyCodes \ {"q", "j", "k", "G", "g", " ", "r"} : Pressed(k)
    /\ ui_pc' = "loop"
    /\ key' = None
    /\ UNCHANGED <<app_state, now, env, refreshes, spawned, selected_id_opt,
                   ready, tasking, terminal, frame>>

\* ui.rs:122-130
HandleSpaceResolve ==
    /\ Pressed(" ")
    /\ LockFree
    /\ selected_id_opt' = selected_id(app_state)
    /\ ui_pc' = IF selected_id(app_state) # None THEN "space" ELSE "loop"
    /\ key' = None
    /\ UNCHANGED <<app_state, now, env, refreshes, spawned, ready, tasking,
                   terminal, frame>>

\* ui.rs:133-136
HandleSpaceToggle ==
    /\ ui_pc = "space"
    /\ LockFree
    /\ app_state' = toggle_task_by_id(app_state, unwrap(selected_id_opt))
    /\ ui_pc' = "loop"
    /\ selected_id_opt' = None
    /\ ready' = <<>>
    /\ UNCHANGED <<now, env, refreshes, spawned, tasking, tty>>

\* as HandleRefresh, but the task is spawned without marking the state
HandleRefresh_unmarked ==
    /\ Pressed("r")
    /\ LockFree
    /\ spawned' = spawned + 1
    /\ refreshes' = refreshes \cup {spawned + 1}
    /\ fetching' = fetching \cup {spawned + 1}
    /\ ui_pc' = "loop"
    /\ key' = None
    /\ ready' = <<>>
    /\ UNCHANGED <<app_state, now, env, selected_id_opt, lock, landed,
                   terminal, frame>>

\* ui.rs:138-147: Syncing under the lock, then the task is spawned
HandleRefresh ==
    /\ Pressed("r")
    /\ LockFree
    /\ app_state' = [app_state EXCEPT !.sync_status = Status("Syncing")]
    /\ spawned' = spawned + 1
    /\ refreshes' = refreshes \cup {spawned + 1}
    /\ fetching' = fetching \cup {spawned + 1}
    /\ ui_pc' = "loop"
    /\ key' = None
    /\ ready' = <<>>
    /\ UNCHANGED <<now, env, selected_id_opt, lock, landed, terminal, frame>>

\* ui.rs:150-160: both awaits of task r have returned, each with the answer
\* of the service or with Elapsed after 5 s
RefreshFetched(r) ==
    /\ Running
    /\ r \in fetching
    /\ fetching' = fetching \ {r}
    /\ UNCHANGED <<app_state, now, env, refreshes, spawned, loop, ready, lock,
                   landed, tty>>

\* as RefreshLock, but the lock is taken before the fetches
RefreshLock_before_fetch(r) ==
    /\ Running
    /\ r \in refreshes
    /\ LockFree
    /\ lock' = Some(r)
    /\ UNCHANGED <<app_state, now, env, refreshes, spawned, loop, ready,
                   fetching, landed, tty>>

\* ui.rs:161: task r takes the lock
RefreshLock(r) ==
    /\ Running
    /\ r \in refreshes \ fetching
    /\ LockFree
    /\ lock' = Some(r)
    /\ UNCHANGED <<app_state, now, env, refreshes, spawned, loop, ready,
                   fetching, landed, tty>>

\* as RefreshFoldWith, but a task that finds a later-started task has
\* written already discards its results
RefreshFoldWith_unless_stale(r, ar, cr) ==
    /\ Running
    /\ lock = Some(r)
    /\ app_state' = IF \E k \in Range(landed) : k > r
                    THEN app_state
                    ELSE refresh_fold(app_state, ar, cr)
    /\ lock' = None
    /\ refreshes' = refreshes \ {r}
    /\ landed' = Append(landed, r)
    /\ ready' = <<>>
    /\ UNCHANGED <<now, env, spawned, loop, fetching, tty>>

\* ui.rs:162-190: task r folds its two results and releases the lock
RefreshFoldWith(r, ar, cr) ==
    /\ Running
    /\ lock = Some(r)
    /\ app_state' = refresh_fold(app_state, ar, cr)
    /\ lock' = None
    /\ refreshes' = refreshes \ {r}
    /\ landed' = Append(landed, r)
    /\ ready' = <<>>
    /\ UNCHANGED <<now, env, spawned, loop, fetching, tty>>

RefreshFold(r) ==
    \E ar \in LoopActiveOutcomes \cup {Elapsed},
       cr \in LoopCompletedOutcomes \cup {Elapsed} :
        RefreshFoldWith(r, ar, cr)

\* ui.rs:200: run calls cleanup after the loop and returns
RunCleanup ==
    /\ ui_pc = "cleanup"
    /\ terminal' = cleanup(terminal)
    /\ ui_pc' = "drop"
    /\ UNCHANGED <<app_state, now, env, refreshes, spawned, selected_id_opt,
                   ready, tasking, key, frame>>

\* ui.rs:344-348: the UI value goes out of scope in main
DropUi ==
    /\ ui_pc = "drop"
    /\ terminal' = cleanup(terminal)
    /\ ui_pc' = "exit"
    /\ UNCHANGED <<app_state, now, env, refreshes, spawned, selected_id_opt,
                   ready, tasking, key, frame>>

Tasks == 1..MaxOverlap

\* the steps of the main task
Foreground ==
    \/ MainInitialFetch
    \/ UiNewOk
    \/ UiNewErr
    \/ LoopSelect
    \/ Draw
    \/ DrawErr
    \/ PollTimeout
    \/ PollKey
    \/ PollErr
    \/ HandleDown
    \/ HandleUp
    \/ HandleBottom
    \/ HandleTop
    \/ HandleQuit
    \/ HandleOther
    \/ HandleSpaceResolve
    \/ HandleSpaceToggle
    \/ HandleRefresh
    \/ RunCleanup
    \/ DropUi

\* the steps of the spawned tasks
Background ==
    \/ \E r \in Tasks : RefreshFetched(r)
    \/ \E r \in Tasks : RefreshLock(r)
    \/ \E r \in Tasks : RefreshFold(r)

NextLoop == Foreground \/ Background

SpecLoop == Init /\ [][NextLoop]_vars

\* the runtime keeps running the main task until it returns, and every
\* await of a refresh task returns: the remote calls within their timeouts,
\* the lock because its holders never wait while holding it
LoopFairness ==
    /\ WF_vars(Foreground)
    /\ \A r \in Tasks :
          /\ WF_vars(RefreshFetched(r))
          /\ WF_vars(RefreshLock(r))
          /\ WF_vars(RefreshFold(r))

SpecLoopFair == SpecLoop /\ LoopFairness

(***************************************************************************)
(* SpecFold: SpecLoop with the fold of a refresh task taken one match at a *)
(* time, the guard of ui.rs:161 alive across both.                         *)
(***************************************************************************)
\* ui.rs:162-178: task r, holding the lock, matches on active_result
RefreshFoldActive(r, ar) ==
    /\ Running
    /\ lock = Some(r)
    /\ app_state' = fold_active_result(app_state, ar)
    /\ lock' = Half(r)
    /\ ready' = <<>>
    /\ UNCHANGED <<now, env, refreshes, spawned, loop, fetching, landed, tty>>

\* ui.rs:179-190: task r matches on completed_result; the guard is dropped
\* at the end of the block
RefreshFoldCompleted(r, cr) ==
    /\ Running
    /\ lock = Half(r)
    /\ app_state' = fold_completed_result(app_state, cr)
    /\ lock' = None
    /\ refreshes' = refreshes \ {r}
    /\ landed' = Append(landed, r)
    /\ ready' = <<>>
    /\ UNCHANGED <<now, env, spawned, loop, fetching, tty>>

NextFold ==
    \/ Foreground
    \/ \E r \in Tasks : RefreshFetched(r)
    \/ \E r \in Tasks : RefreshLock(r)
    \/ \E r \in Tasks, ar \in LoopActiveOutcomes \cup {Elapsed} :
           RefreshFoldActive(r, ar)
    \/ \E r \in Tasks, cr \in LoopCompletedOutcomes \cup {Elapsed} :
           RefreshFoldCompleted(r, cr)

SpecFold == Init /\ [][NextFold]_vars

(***************************************************************************)
(* Vocabulary of the properties.                                           *)
(***************************************************************************)
\* length of the unified today view
unified_today_count(s) == Len(today_tasks(s))

\* last index of the unified today view, 0 when it is empty
LastOfView(s) == IF unified_today_count(s) = 0 THEN 0 ELSE unified_today_count(s) - 1

\* the state fields other than selected_index are the same in s and t
SameButIndex(s, t) == t = [s EXCEPT !.selected_index = t.selected_index]

\* the positions of p whose element satisfies P, and the k-th of them
Positions(p, P(_)) == {i \in 1..Len(p) : P(p[i])}
NthOf(S, k) == CHOOSE i \in S : Cardinality({j \in S : j <= i}) = k

\* q consists of exactly the elements of p that satisfy P, in the order of p
IsSelection(q, p, P(_)) ==
    /\ Len(q) = Cardinality(Positions(p, P))
    /\ \A k \in 1..Len(q) : q[k] = p[NthOf(Positions(p, P), k)]

(***************************************************************************)
(* C1.  In every reachable state selected_index is strictly less than the  *)
(* length of today_tasks(), or is 0 when today_tasks() is empty.           *)
(* The navigation of state.rs is bounded by tasks.len() instead, so the    *)
(* program leaves the unified view.                                        *)
(***************************************************************************)
C1_SelectedIndexInView ==
    IF unified_today_count(app_state) = 0
    THEN app_state.selected_index = 0
    ELSE app_state.selected_index < unified_today_count(app_state)

(***************************************************************************)
(* C8.  move_down adds one to selected_index when it is below the last     *)
(* index of the unified today view and leaves it unchanged otherwise, also *)
(* when the view is empty; nothing else changes.                           *)
(***************************************************************************)
C8_MoveDownStopsAtLastOfView ==
    [][KeyDown =>
          /\ app_state'.selected_index =
                 IF app_state.selected_index < LastOfView(app_state)
                 THEN app_state.selected_index + 1
                 ELSE app_state.selected_index
          /\ SameButIndex(app_state, app_state')]_vars

(***************************************************************************)
(* C9.  go_to_top sets selected_index to 0, go_to_bottom sets it to the    *)
(* last index of the unified today view (0 for an empty view), and neither *)
(* changes anything else.                                                  *)
(***************************************************************************)
C9_TopAndBottomOfView ==
    [][/\ KeyTop =>
            /\ app_state'.selected_index = 0
            /\ SameButIndex(app_state, app_state')
       /\ KeyBottom =>
            /\ app_state'.selected_index = LastOfView(app_state)
            /\ SameButIndex(app_state, app_state')]_vars

IsPrefix(p, q) == Len(p) <= Len(q) /\ SubSeq(q, 1, Len(p)) = p

\* the last entry of the queue is a Complete for a task that is incomplete in
\* tasks: the flip that entry records was discarded by a later load
FlipDiscarded(s) ==
    /\ s.pending_changes # <<>>
    /\ LET c == s.pending_changes[Len(s.pending_changes)]
       IN  /\ c.change_type = "Complete"
           /\ \E i \in 1..Len(s.tasks) :
                  s.tasks[i].id = c.task_id /\ ~s.tasks[i].is_completed

(***************************************************************************)
(* C2.  Entries of pending_changes leave the queue only in a mark_synced   *)
(* call with their task_id; every other step (loads, navigation, toggles,  *)
(* search, the writes of a refresh) keeps the queue as it is or appends to *)
(* it, so the entries queued before a refresh lands are there afterwards.  *)
(***************************************************************************)
C2_PendingRemovedOnlyBySync ==
    [][LET p == app_state.pending_changes
           q == app_state'.pending_changes
       IN  \/ IsPrefix(p, q)
           \/ \E ids \in SUBSET TaskIds :
                  /\ MarkSyncedCall(ids)
                  /\ IsSelection(q, p, LAMBDA c : c.task_id \notin ids)]_vars

\* a refresh has landed with fresh tasks and the queue still holds the
\* change of a flip that the replacement discarded
C2_Witness ==
    /\ spawned > 0
    /\ refreshes = {}
    /\ app_state.sync_status = Status("Online")
    /\ Len(app_state.pending_changes) = 2
    /\ FlipDiscarded(app_state)

(***************************************************************************)
(* C3.  With selected_index a valid index into tasks, toggle_selected_task *)
(* flips is_completed of the task at selected_index and of no other, and   *)
(* appends one PendingChange carrying that task's id and the change type   *)
(* of its new state: Complete if it is now completed, else Uncomplete.     *)
(***************************************************************************)
C3_ToggleFlipsOneAppendsOne ==
    [][(ToggleSelectedTask /\ app_state.selected_index < Len(app_state.tasks)) =>
          LET s == app_state
              t == app_state'
              i == s.selected_index + 1
              n == Len(s.pending_changes)
          IN  /\ Len(t.tasks) = Len(s.tasks)
              /\ \A k \in 1..Len(s.tasks) :
                     t.tasks[k] = IF k = i
                                  THEN [s.tasks[k] EXCEPT !.is_completed = ~s.tasks[k].is_completed]
                                  ELSE s.tasks[k]
              /\ Len(t.pending_changes) = n + 1
              /\ SubSeq(t.pending_changes, 1, n) = s.pending_changes
              /\ t.pending_changes[n + 1].task_id = s.tasks[i].id
              /\ t.pending_changes[n + 1].change_type =
                     IF t.tasks[i].is_completed THEN "Complete" ELSE "Uncomplete"]_vars

\* the second of two tasks was completed and then uncompleted
C3_Witness ==
    /\ Len(app_state.tasks) = 2
    /\ app_state.selected_index = 1
    /\ ~app_state.tasks[2].is_completed
    /\ Len(app_state.pending_changes) = 2
    /\ app_state.pending_changes[1].task_id = app_state.tasks[2].id
    /\ app_state.pending_changes[1].change_type = "Complete"
    /\ app_state.pending_changes[2].task_id = app_state.tasks[2].id
    /\ app_state.pending_changes[2].change_type = "Uncomplete"

C5_MarkSyncedRemovesExactly ==
    [][\A ids \in SUBSET TaskIds :
          MarkSyncedCall(ids) =>
              /\ IsSelection(app_state'.pending_changes, app_state.pending_changes,
                             LAMBDA c : c.task_id \notin ids)
              /\ app_state' = [app_state EXCEPT
                                  !.pending_changes = app_state'.pending_changes]
              /\ mark_synced(app_state', ids) = app_state']_vars

\* a task was flipped, so its change was queued, and the queue now holds no
\* entry of that task while it still holds another task's entry
C5_Witness ==
    /\ app_state.pending_changes # <<>>
    /\ \E i \in 1..Len(app_state.tasks) :
           /\ app_state.tasks[i].is_completed
           /\ \A k \in 1..Len(app_state.pending_changes) :
                  app_state.pending_changes[k].task_id # app_state.tasks[i].id

(***************************************************************************)
(* C10.  load_tasks(ts) leaves tasks equal to ts, whatever the list held   *)
(* before, sets selected_index to 0 and leaves completed_tasks,            *)
(* pending_changes, search_query, is_searching and sync_status unchanged.  *)
(***************************************************************************)
C10_LoadTasksReplaces ==
    [][\A ts \in ActiveLists :
          LoadTasksCall(ts) =>
              /\ app_state'.tasks = ts
              /\ app_state'.selected_index = 0
              /\ app_state'.completed_tasks = app_state.completed_tasks
              /\ app_state'.pending_changes = app_state.pending_changes
              /\ app_state'.search_query = app_state.search_query
              /\ app_state'.is_searching = app_state.is_searching
              /\ app_state'.sync_status = app_state.sync_status]_vars

\* no fetch has written the state (it is still Offline), so the load that
\* discarded the queued flip was a direct load_tasks; a search is under way
C10_Witness ==
    /\ app_state.sync_status = Status("Offline")
    /\ FlipDiscarded(app_state)
    /\ app_state.completed_tasks # <<>>
    /\ app_state.is_searching
    /\ app_state.search_query = "q"

(***************************************************************************)
(* C6.  today_tasks() is tasks_due_today() followed by completed_tasks,    *)
(* stably partitioned by is_completed: no incomplete task comes after a    *)
(* completed one, the incomplete tasks keep their relative order and so do *)
(* the completed ones, and no task is added, dropped or duplicated.        *)
(***************************************************************************)
Concatenation(s) == tasks_due_today(s) \o s.completed_tasks

C6_TodayTasksStablePartition ==
    LET c == Concatenation(app_state)
        v == today_tasks(app_state)
    IN  /\ Len(v) = Len(c)
        /\ \A i, j \in 1..Len(v) :
               i < j => ~(v[i].is_completed /\ ~v[j].is_completed)
        /\ IsSelection(SubSeq(v, 1, Cardinality(Positions(c, LAMBDA t : ~t.is_completed))),
                       c, LAMBDA t : ~t.is_completed)
        /\ IsSelection(SubSeq(v, Cardinality(Positions(c, LAMBDA t : ~t.is_completed)) + 1, Len(v)),
                       c, LAMBDA t : t.is_completed)

\* a completed task due today precedes two different incomplete tasks and a
\* second completed one in the concatenation, so the sort has to move them
C6_Witness ==
    LET c == Concatenation(app_state)
    IN  /\ Len(c) = 4
        /\ c[1].is_completed
        /\ ~c[2].is_completed
        /\ ~c[3].is_completed
        /\ c[4].is_completed
        /\ c[2] # c[3]
        /\ c[1] # c[4]

(***************************************************************************)
(* C7.  tasks_due_today() is, in list order, exactly the tasks whose due   *)
(* date resolves to the current local day; tasks_upcoming() is, in list    *)
(* order, exactly the tasks whose due date resolves to a later day or that *)
(* have no due date; the two share no task, and a task whose due date does *)
(* not parse, or resolves to a past day, is in neither.                    *)
(***************************************************************************)
\* the local calendar day a due date denotes: a calendar date denotes its
\* day, a timestamp with offset the local day of its instant; anything else
\* does not parse
Parses(due) == due # None /\ unwrap(due).fmt \in {"ymd", "rfc3339"}

ResolvedDay(due) ==
    IF unwrap(due).fmt = "ymd"
    THEN unwrap(due).day
    ELSE (unwrap(due).day * 24 + unwrap(due).hour - unwrap(due).off + tz) \div 24

C11_LoadCompletedForcesFlag ==
    [][\A ts \in UpstreamCompleted :
          LoadCompletedTasksCall(ts) =>
              LET c == app_state'.completed_tasks
              IN  /\ Len(c) = Len(ts)
                  /\ \A i \in 1..Len(ts) :
                        /\ c[i].id = ts[i].id
                        /\ c[i].is_completed
                  /\ app_state'.tasks = app_state.tasks
                  /\ app_state'.selected_index = app_state.selected_index
                  /\ app_state'.pending_changes = app_state.pending_changes]_vars

\* two completed tasks loaded in the order d, a while a flipped task, a
\* moved cursor and queued changes were in the state
C11_Witness ==
    /\ Len(app_state.completed_tasks) = 2
    /\ app_state.completed_tasks[1].id = "d"
    /\ app_state.completed_tasks[2].id = "a"
    /\ \E i \in 1..Len(app_state.tasks) : app_state.tasks[i].is_completed
    /\ app_state.selected_index = 1
    /\ app_state.pending_changes # <<>>

(***************************************************************************)
(* C12.  In every reachable state, after any sequence of loads, refreshes, *)
(* navigation and completion toggles, every entry of completed_tasks has   *)
(* is_completed = TRUE.                                                    *)
(***************************************************************************)
C12_CompletedEntriesCompleted ==
    \A i \in 1..Len(app_state.completed_tasks) :
        app_state.completed_tasks[i].is_completed

\* ts and us are the same list but for the flag of the entry at position i,
\* which is flipped
FlippedAt(ts, us, i) ==
    /\ Len(us) = Len(ts)
    /\ us[i] = [ts[i] EXCEPT !.is_completed = ~@]
    /\ \A k \in 1..Len(ts) : k # i => us[k] = ts[k]

HasId(ts, id) == \E i \in 1..Len(ts) : ts[i].id = id

(***************************************************************************)
(* C13.  toggle_task_by_id(id) flips is_completed of exactly one task: the *)
(* task with that id in tasks if there is one, otherwise the task with     *)
(* that id in completed_tasks; when neither collection has the id nothing  *)
(* changes.  selected_index and the other tasks are unchanged throughout.  *)
(***************************************************************************)
C13_ToggleByIdFlipsOne ==
    [][KeySpaceToggle =>
          LET id == unwrap(selected_id_opt)
              s == app_state
              t == app_state'
          IN  /\ t.selected_index = s.selected_index
              /\ t.pending_changes = s.pending_changes
              /\ t.sync_status = s.sync_status
              /\ IF HasId(s.tasks, id)
                 THEN /\ \E i \in 1..Len(s.tasks) :
                            s.tasks[i].id = id /\ FlippedAt(s.tasks, t.tasks, i)
                      /\ t.completed_tasks = s.completed_tasks
                 ELSE IF HasId(s.completed_tasks, id)
                 THEN /\ \E j \in 1..Len(s.completed_tasks) :
                            /\ s.completed_tasks[j].id = id
                            /\ FlippedAt(s.completed_tasks, t.completed_tasks, j)
                      /\ t.tasks = s.tasks
                 ELSE t = s]_vars

\* task a is in both collections and the space key has flipped the one in
\* tasks: the fetched flag was FALSE, the entry of completed_tasks is as loaded
C13_Witness ==
    /\ ui_pc = "idle"
    /\ \E i \in 1..Len(app_state.tasks) :
          app_state.tasks[i].id = "a" /\ app_state.tasks[i].is_completed
    /\ \E j \in 1..Len(app_state.completed_tasks) :
          /\ app_state.completed_tasks[j].id = "a"
          /\ app_state.completed_tasks[j].is_completed

\* the results a refresh task may hold when it folds
ActiveResults == LoopActiveOutcomes \cup {Elapsed}
CompletedResults == LoopCompletedOutcomes \cup {Elapsed}

\* a fetch that did not succeed: the service failed or the timeout elapsed
Unsuccessful(result) == result.kind \in {"Err", "Elapsed"}

(***************************************************************************)
(* C14 as claimed.  When a manual refresh completes, sync_status is Online *)
(* if both fetches succeeded and Error(message) if either fetch failed or  *)
(* timed out, the message being "Timeout" when the cause is a timeout.     *)
(***************************************************************************)
C14_AnyFailureIsError ==
    [][\A r \in Tasks, ar \in ActiveResults, cr \in CompletedResults :
          RefreshFoldWith(r, ar, cr) =>
              LET st == app_state'.sync_status
              IN  IF ar.kind = "Ok" /\ cr.kind = "Ok"
                  THEN st = Status("Online")
                  ELSE /\ st.tag = "Error"
                       /\ (ar.kind = "Elapsed" => st.msg = "Timeout")
                       /\ (ar.kind = "Ok" /\ cr.kind = "Elapsed"
                              => st.msg = "Timeout")]_vars

(***************************************************************************)
(* C14 as amended.  When a manual refresh completes, sync_status is Online *)
(* if the active-task fetch succeeded, Error(message) with the message of  *)
(* the failure if it failed and Error("Timeout") if it timed out; the      *)
(* outcome of the completed-task fetch does not enter the status.          *)
(***************************************************************************)
C14_StatusFollowsActiveFetch ==
    [][\A r \in Tasks, ar \in ActiveResults, cr \in CompletedResults :
          RefreshFoldWith(r, ar, cr) =>
              app_state'.sync_status =
                  CASE ar.kind = "Ok" -> Status("Online")
                    [] ar.kind = "Err" -> StatusError(ar.msg)
                    [] ar.kind = "Elapsed" -> StatusError("Timeout")]_vars

\* every refresh has written and the last one to write had its active-task
\* fetch time out (no other code produces this message)
C14_Witness ==
    /\ landed # <<>>
    /\ refreshes = {}
    /\ app_state.sync_status = StatusError("Timeout")

(***************************************************************************)
(* C15.  When the completed-task fetch of a manual refresh or of the       *)
(* initial load fails or times out, completed_tasks keeps its previous     *)
(* contents and the status set by the active-task outcome stands: with a   *)
(* successful active-task fetch the status is Online.                      *)
(***************************************************************************)
C15_CompletedFailureIsNotFatal ==
    [][/\ \A r \in Tasks, ar \in ActiveResults, cr \in CompletedResults :
            RefreshFoldWith(r, ar, cr) /\ Unsuccessful(cr) =>
                /\ app_state'.completed_tasks = app_state.completed_tasks
                /\ ar.kind = "Ok" =>
                     /\ app_state'.sync_status = Status("Online")
                     /\ app_state'.tasks = ar.tasks
       /\ \A ar \in LoopActiveOutcomes, cr \in LoopCompletedOutcomes :
            MainInitialFetchWith(ar, cr) /\ Unsuccessful(cr) =>
                /\ app_state'.completed_tasks = app_state.completed_tasks
                /\ ar.kind = "Ok" =>
                     /\ app_state'.sync_status = Status("Online")
                     /\ app_state'.tasks = ar.tasks]_vars

\* the frame on screen shows Syncing and no key has been handled since it
\* was drawn, so the state was written by a refresh after that frame; the
\* entry of completed_tasks was flipped before the frame and is still there,
\* flag unset: that refresh got no completed tasks, and the status is Online
C15_Witness ==
    /\ ui_pc = "poll"
    /\ frame # None
    /\ unwrap(frame).sync_status = "Syncing"
    /\ app_state.sync_status = Status("Online")
    /\ Len(app_state.completed_tasks) = 1
    /\ ~app_state.completed_tasks[1].is_completed

\* what C16 says short of the completion of every refresh: the refresh key
\* marks the state Syncing as it spawns the task, the status is Online or
\* Error once refreshes have run and none is in flight, and a key read
\* while a refresh is in flight gets handled
RefreshKeyMarksSyncing ==
    [][HandleRefresh =>
          /\ app_state'.sync_status = Status("Syncing")
          /\ (spawned + 1) \in fetching' \ fetching]_vars

SettledWhenNoneInFlight ==
    [](refreshes = {} /\ spawned > 0 =>
          app_state.sync_status.tag \in {"Online", "Error"})

\* no key that was read waits for ever, whatever the refresh tasks do
KeysHandledDuringRefresh == []<>(ui_pc # "key")

(***************************************************************************)
(* C16 as claimed.  Pressing the refresh key sets sync_status to Syncing   *)
(* before the fetches start, every refresh eventually completes and writes *)
(* its outcome (no task stays in flight for ever: a task leaves refreshes  *)
(* only by writing), once no refresh is in flight sync_status is Online or *)
(* Error(message) and never Syncing, and key presses arriving while a      *)
(* refresh is in flight are still handled.                                 *)
(***************************************************************************)
C16_EveryRefreshCompletes ==
    /\ RefreshKeyMarksSyncing
    /\ SettledWhenNoneInFlight
    /\ KeysHandledDuringRefresh
    /\ \A r \in Tasks : []<>(r \notin refreshes)

(***************************************************************************)
(* C16 as amended.  The same, except that a refresh eventually completes   *)
(* and writes its outcome unless the process ends first: a refresh still   *)
(* in flight when main returns is dropped with the runtime.                *)
(***************************************************************************)
C16_RefreshCompletesWhileRunning ==
    /\ RefreshKeyMarksSyncing
    /\ SettledWhenNoneInFlight
    /\ KeysHandledDuringRefresh
    /\ \A r \in Tasks : []<>(r \notin refreshes \/ ~Running)

\* two refreshes have been spawned and both have written while the loop is
\* still running; the status is the Error of the last one
C16_Witness ==
    /\ Len(landed) = 2
    /\ refreshes = {}
    /\ Running
    /\ app_state.sync_status.tag = "Error"

(***************************************************************************)
(* C17.  The foreground loop never blocks on the state lock while a        *)
(* refresh waits on the remote service: a refresh task holds the lock only *)
(* once both its remote calls have returned, so with the lock free the     *)
(* main task can always take its next step; and the render pass never      *)
(* waits: it draws the state when the lock is free and an empty default    *)
(* snapshot (no rows, Offline) when the lock is held.                      *)
(***************************************************************************)
C17_RenderAndKeysNeverWaitOnFetch ==
    /\ [](lock # None => unwrap(lock) \in refreshes \ fetching)
    /\ [](Running /\ LockFree => ENABLED Foreground)
    /\ [](ui_pc = "draw" => ENABLED Draw)
    /\ [][Draw =>
            IF LockFree
            THEN /\ unwrap(frame').today = Len(today_tasks(app_state))
                 /\ unwrap(frame').sync_status = app_state.sync_status.tag
            ELSE /\ unwrap(frame').today = 0
                 /\ unwrap(frame').sync_status = "Offline"]_vars

\* a frame was drawn from the default snapshot although the state holds a
\* task and is not Offline: one refresh task holds the lock for its write
\* while another is still waiting on the remote service
C17_Witness ==
    /\ ui_pc = "poll"
    /\ lock # None
    /\ fetching # {}
    /\ frame = Some([today |-> 0, sync_status |-> "Offline"])
    /\ Len(today_tasks(app_state)) > 0

\* state t holds what a refresh with these two results writes over state s
WrittenBy(s, t, ar, cr) ==
    /\ ar.kind = "Ok" =>
          /\ t.tasks = ar.tasks
          /\ t.selected_index = 0
          /\ t.sync_status = Status("Online")
    /\ ar.kind = "Err" =>
          /\ t.tasks = s.tasks
          /\ t.sync_status = StatusError(ar.msg)
    /\ ar.kind = "Elapsed" =>
          /\ t.tasks = s.tasks
          /\ t.sync_status = StatusError("Timeout")
    /\ cr.kind = "Ok" =>
          /\ Len(t.completed_tasks) = Len(cr.tasks)
          /\ \A i \in 1..Len(cr.tasks) :
                t.completed_tasks[i] = [cr.tasks[i] EXCEPT !.is_completed = TRUE]
    /\ cr.kind # "Ok" => t.completed_tasks = s.completed_tasks

(***************************************************************************)
(* C18.  When refreshes overlap, each write lands whole whatever has       *)
(* landed before it: the state after a task has written holds that task's  *)
(* data and status, also when a task started after it has written already  *)
(* (no staleness check), so after both have completed the state is that of *)
(* the last writer, whichever of the two was started first.                *)
(***************************************************************************)
C18_LastWriterWins ==
    [][\A r \in Tasks, ar \in ActiveResults, cr \in CompletedResults :
          RefreshFoldWith(r, ar, cr) =>
              /\ WrittenBy(app_state, app_state', ar, cr)
              /\ landed' = Append(landed, r)
              /\ r \notin Range(landed)]_vars

\* both refreshes have completed and the one started first wrote last
C18_Witness ==
    /\ landed = <<2, 1>>
    /\ refreshes = {}
    /\ lock = None

(***************************************************************************)
(* C19.  The loop is a two-mode machine: handling the '/' key in Normal    *)
(* mode sets is_searching and clears search_query, handling Esc in         *)
(* Searching mode resets is_searching and clears search_query, and the     *)
(* navigation, toggle and refresh keys leave the state alone while         *)
(* is_searching is set.                                                    *)
(***************************************************************************)
C19_TwoModeMachine ==
    [][/\ (HandleOther /\ Pressed("/") /\ ~app_state.is_searching) =>
            /\ app_state'.is_searching
            /\ app_state'.search_query = ""
       /\ (HandleOther /\ Pressed("Esc") /\ app_state.is_searching) =>
            /\ ~app_state'.is_searching
            /\ app_state'.search_query = ""
       /\ (Foreground /\ app_state.is_searching
              /\ \E k \in {"j", "k", "G", "g", " ", "r"} : Pressed(k)) =>
            app_state' = app_state]_vars

(***************************************************************************)
(* C20.  Terminal cleanup has run by the time the process ends on every    *)
(* exit path that follows entering raw mode: when main has returned the    *)
(* terminal is out of raw mode and out of the alternate screen.            *)
(***************************************************************************)
C20_TerminalRestoredAtExit ==
    ~Running => ~terminal.raw_mode /\ ~terminal.alternate_screen

\* the entries of list us that differ from the entry of ts at their position
Changed(ts, us) == {i \in 1..Len(ts) : us[i] # ts[i]}

(***************************************************************************)
(* C21.  A space key press never flips a task other than the one that was  *)
(* at selected_index in the unified today view when the key was handled:   *)
(* the first lock acquisition resolves exactly the id at selected_index of *)
(* today_tasks() (and the press ends there when the index is past the      *)
(* view), the second flips at most one entry, one with that id, leaves the *)
(* lists as long as they were, and changes nothing when a refresh has      *)
(* removed the id from both lists in between.                              *)
(***************************************************************************)
C21_SpaceFlipsOnlyResolvedId ==
    [][/\ KeySpaceResolve =>
            LET view == today_tasks(app_state)
                i == app_state.selected_index
            IN  /\ app_state' = app_state
                /\ IF i < Len(view)
                   THEN selected_id_opt' = Some(view[i + 1].id) /\ ui_pc' = "space"
                   ELSE selected_id_opt' = None /\ ui_pc' = "idle"
       /\ KeySpaceToggle =>
            LET id == unwrap(selected_id_opt)
                s == app_state
                t == app_state'
                flipped == Changed(s.tasks, t.tasks)
                flipped_done == Changed(s.completed_tasks, t.completed_tasks)
            IN  /\ Len(t.tasks) = Len(s.tasks)
                /\ Len(t.completed_tasks) = Len(s.completed_tasks)
                /\ Cardinality(flipped) + Cardinality(flipped_done) <= 1
                /\ \A k \in flipped :
                      t.tasks[k] = [s.tasks[k] EXCEPT !.is_completed = ~@]
                        /\ s.tasks[k].id = id
                /\ \A k \in flipped_done :
                      t.completed_tasks[k] =
                          [s.completed_tasks[k] EXCEPT !.is_completed = ~@]
                        /\ s.completed_tasks[k].id = id
                /\ (HasId(s.tasks, id) \/ HasId(s.completed_tasks, id))
                      => Cardinality(flipped) + Cardinality(flipped_done) = 1
                /\ ~(HasId(s.tasks, id) \/ HasId(s.completed_tasks, id))
                      => t = s]_vars

\* between the two lock acquisitions of a space press: the id a was
\* resolved from the view, and the refresh that was in flight has since
\* replaced the lists with ones that do not hold it
C21_Witness ==
    /\ ui_pc = "space"
    /\ selected_id_opt = Some("a")
    /\ spawned = 1
    /\ refreshes = {}
    /\ ~HasId(app_state.tasks, "a")
    /\ ~HasId(app_state.completed_tasks, "a")

(***************************************************************************)
(* C23.  Navigation, rendering and the space key agree on selected_index:  *)
(* whenever the loop waits for a key, a task the renderer highlights (in   *)
(* the Today or the Upcoming panel) is the task whose id a space press     *)
(* resolves and toggles, and while the unified today view is not empty     *)
(* selected_index is never a position for which space does nothing.        *)
(***************************************************************************)
C23_HighlightIsWhatSpaceToggles ==
    Idle =>
        /\ \A h \in highlighted(app_state) :
              selected_id(app_state) = Some(h.task.id)
        /\ Len(today_tasks(app_state)) > 0 => selected_id(app_state) # None

Settled(status) == status.tag \in {"Online", "Error"}

(***************************************************************************)
(* C24.  sync_status is Offline only in the initial state: AppState starts *)
(* with empty collections and Offline, the initial load moves it to Online *)
(* or Error(message), and from then on the status changes only from Online *)
(* or Error to Syncing at the refresh key and to Online or Error at the    *)
(* write of a refresh; nothing sets it back to Offline.                    *)
(***************************************************************************)
C24_OfflineOnlyInitially ==
    /\ app_state = new
    /\ [](app_state.sync_status.tag = "Offline" =>
             ui_pc = "start" /\ app_state = new)
    /\ [][MainInitialFetch => Settled(app_state'.sync_status)]_vars
    /\ [][app_state'.sync_status.tag = "Offline" =>
             app_state.sync_status.tag = "Offline"]_vars
    /\ [][app_state'.sync_status # app_state.sync_status =>
             \/ /\ MainInitialFetch
                /\ app_state.sync_status = Status("Offline")
             \/ /\ HandleRefresh
                /\ Settled(app_state.sync_status)
                /\ app_state'.sync_status = Status("Syncing")
             \/ /\ \E r \in Tasks : RefreshFold(r)
                /\ Settled(app_state'.sync_status)]_vars

\* a refresh has written its outcome and the refresh key has been pressed
\* again: the status went from Online or Error back to Syncing
C24_Witness ==
    /\ Len(landed) = 1
    /\ app_state.sync_status = Status("Syncing")
    /\ refreshes = {2}

\* a refresh task is between the two matches of its fold
BetweenWrites == Len(lock) = 2

(***************************************************************************)
(* C22.  The writes of one refresh are atomic for every other actor: the   *)
(* active-task outcome (tasks, selected_index, sync_status) is written     *)
(* first and leaves completed_tasks alone, the completed-task outcome is   *)
(* written second and touches completed_tasks only, and between the two    *)
(* the only step that reads or writes the state is that second write: no   *)
(* key handler runs, no other task takes the lock, the loop does not read  *)
(* selected_index, and a frame drawn then shows the default snapshot.      *)
(***************************************************************************)
C22_FoldIsAtomic ==
    /\ [][\A r \in Tasks, ar \in ActiveResults :
             RefreshFoldActive(r, ar) =>
                 /\ WrittenBy(app_state, app_state', ar, Elapsed)
                 /\ app_state'.pending_changes = app_state.pending_changes]_vars
    /\ [][\A r \in Tasks, cr \in CompletedResults :
             RefreshFoldCompleted(r, cr) =>
                 /\ BetweenWrites
                 /\ app_state'.tasks = app_state.tasks
                 /\ app_state'.selected_index = app_state.selected_index
                 /\ app_state'.sync_status = app_state.sync_status
                 /\ cr.kind = "Ok" =>
                       app_state'.completed_tasks =
                           load_completed_tasks(app_state, cr.tasks).completed_tasks
                 /\ cr.kind # "Ok" =>
                       app_state'.completed_tasks = app_state.completed_tasks]_vars
    /\ [][BetweenWrites =>
             \/ \E cr \in CompletedResults :
                    RefreshFoldCompleted(lock[1], cr)
             \/ /\ app_state' = app_state
                /\ lock' = lock
                /\ ~LoopSelect
                /\ ~HandleSpaceResolve
                /\ ~HandleSpaceToggle
                /\ Draw => frame' = Some(FrameOf(new))]_vars

\* between the two writes of a refresh: its tasks and its Online are in
\* the state, completed_tasks is still what the failed initial fetch left,
\* and the handler of the key j is waiting for the lock
C22_Witness ==
    /\ BetweenWrites
    /\ Pressed("j")
    /\ app_state.sync_status = Status("Online")
    /\ app_state.tasks # <<>>
    /\ app_state.completed_tasks = <<>>

====
